---- MODULE Spec2Model ----
(***************************************************************************)
(* A model of the loan planner: the Loan record and its arithmetic         *)
(* (loan_config.py), the allocation heuristics (heuristics.py), the        *)
(* day-stepped PaymentDevice (payment_device.py) and the LoanPlanner that  *)
(* runs one device per heuristic and keeps the cheapest (loan_planner.py). *)
(*                                                                         *)
(* Currency is fixed-point: an amount a of the program is the integer      *)
(* a * Scale, so one currency unit ("dollar") is Scale.  Interest rates    *)
(* are kept as the percentage of the configuration file; the division by   *)
(* 100.0 of Loan.__init__ is done where the rate is used.  A date is a     *)
(* record [year, month, day] of the proleptic Gregorian calendar.          *)
(***************************************************************************)
EXTENDS Integers, Sequences, FiniteSets, TLC

\* ------------------------------------------------------------------ bounds

\* Fixed-point resolution: model units per currency unit.
Scale == 100

\* ------------------------------------------------------- program constants

MAX_YEAR == 3000

\* LoanConfig.DAYS_PER_MONTH = 30.436875, in millionths of a day.
DAYS_PER_MONTH == 30436875

DaysPerYear == 365

None == "None"

\* --------------------------------------------------------------- calendar

IsLeap(y) == (y % 4 = 0) /\ ((y % 100 # 0) \/ (y % 400 = 0))

DaysInMonth(y, m) ==
    IF m = 2 THEN (IF IsLeap(y) THEN 29 ELSE 28)
    ELSE IF m \in {4, 6, 9, 11} THEN 30 ELSE 31

Min(a, b) == IF a < b THEN a ELSE b

Date(y, m, d) == [year |-> y, month |-> m, day |-> d]

DateLess(a, b) ==
    \/ a.year < b.year
    \/ a.year = b.year /\ a.month < b.month
    \/ a.year = b.year /\ a.month = b.month /\ a.day < b.day

\* Days of the months before month m of year y.
RECURSIVE DaysBeforeMonth(_, _)
DaysBeforeMonth(y, m) ==
    IF m = 1 THEN 0 ELSE DaysBeforeMonth(y, m - 1) + DaysInMonth(y, m - 1)

\* datetime.toordinal: the number of the day, 1 for 1/1/0001.
ToOrdinal(d) ==
    LET y == d.year - 1
    IN  (DaysPerYear * y) + (y \div 4) - (y \div 100) + (y \div 400)
          + DaysBeforeMonth(d.year, d.month) + d.day

\* (a - b).days for two datetimes with the same time of day.
DaysBetween(a, b) == ToOrdinal(a) - ToOrdinal(b)

\* date + relativedelta(days=1)
ONE_DAY_DELTA(d) ==
    IF d.day < DaysInMonth(d.year, d.month) THEN Date(d.year, d.month, d.day + 1)
    ELSE IF d.month < 12 THEN Date(d.year, d.month + 1, 1)
    ELSE Date(d.year + 1, 1, 1)

\* date + relativedelta(months=n) for any integer n: the month moves by n, the
\* year follows, and the day is cut to the length of the month reached.
AddMonths(d, n) ==
    LET total == (d.year * 12) + (d.month - 1) + n
        y == total \div 12
        m == (total % 12) + 1
    IN  Date(y, m, Min(d.day, DaysInMonth(y, m)))

\* date - relativedelta(months=1)
ONE_MONTH_DELTA(d) == AddMonths(d, -1)

\* relativedelta(dt1, dt2) for dt1 >= dt2 with the same time of day: the whole
\* months from dt2 to dt1 and the days left over.
RelativeDelta(dt1, dt2) ==
    LET months0 == ((dt1.year - dt2.year) * 12) + (dt1.month - dt2.month)
        months == IF DateLess(dt1, AddMonths(dt2, months0)) THEN months0 - 1 ELSE months0
        dtm == AddMonths(dt2, months)
    IN  [years |-> months \div 12, months |-> months % 12, days |-> DaysBetween(dt1, dtm)]

\* int(round(x)) for x = n / d >= 0, halves rounded up.
RoundDiv(n, d) == ((2 * n) + d) \div (2 * d)

to_months(timeDiff) ==
    (timeDiff.years * 12) + timeDiff.months + RoundDiv(timeDiff.days * 1000000, DAYS_PER_MONTH)

\* dateOfBirth.replace(year=date.year) raises ValueError when the day does not
\* exist in that year (February 29 in a common year).
ReplaceYearRaises(dateOfBirth, y) == dateOfBirth.day > DaysInMonth(y, dateOfBirth.month)

get_age_on_date(dateOfBirth, date) ==
    IF dateOfBirth.month > date.month THEN date.year - dateOfBirth.year - 1
    ELSE IF dateOfBirth.month = date.month /\ dateOfBirth.day > date.day
         THEN date.year - dateOfBirth.year - 1
    ELSE date.year - dateOfBirth.year

\* ------------------------------------------------------------------- Loan

\* Loan.__init__: name is the loan's position in the configuration file (the
\* section names of a file are unique).  A Loan is a Python object, reached by
\* reference: name and copy together are the object's identity.  The objects
\* _parse_loan makes are copy 0 of their loans.
Loan(name, balance, interestRate, monthlyPayment, paymentDay) ==
    [name |-> name, copy |-> 0, balance |-> balance, interestRate |-> interestRate,
     monthlyPayment |-> monthlyPayment, paymentDay |-> paymentDay,
     monthlyIncrease |-> 0, upfrontPayment |-> 0]

\* The list handed on as it is instead of a copy of it: the same objects.
same_objects(ls, n) == ls

\* copy.deepcopy of a list of loans: new objects with the fields of the old;
\* n numbers the copies the program makes.
deepcopy(ls, n) == [i \in 1..Len(ls) |-> [ls[i] EXCEPT !.copy = n]]

SameObject(a, b) == a.name = b.name /\ a.copy = b.copy

\* A list of loans after assignments to the fields of the objects `written`
\* (given as they are after the assignments): an object of the list that was
\* written shows its new fields, through whichever reference it is reached.
Assigned(held, written) ==
    [i \in 1..Len(held) |->
        IF \E w \in written : SameObject(w, held[i])
        THEN CHOOSE w \in written : SameObject(w, held[i])
        ELSE held[i]]

\* The devices of a dict after the same assignments.
AssignedInDevices(plans, written) ==
    [h \in DOMAIN plans |->
        [plans[h] EXCEPT !.originalLoans = Assigned(@, written),
                         !.loans = Assigned(@, written)]]

\* get_payment_amount answering the monthly payment whatever is owed.
get_payment_amount_in_full(loan) == loan.monthlyPayment

get_payment_amount(loan) ==
    IF loan.monthlyPayment < loan.balance THEN loan.monthlyPayment ELSE loan.balance

\* (balance * interestRate) * (daysAccrued / 365.0) for a whole number of days,
\* cut to the fixed-point resolution.
get_interest_accrued(loan, daysAccrued) ==
    (loan.balance * loan.interestRate * daysAccrued) \div (100 * DaysPerYear)

\* get_interest_accrued(d) of two loans for the same d are in the ratio of
\* balance * interestRate: the heuristics compare loans of one call, so they
\* compare these weights exactly instead of two rounded amounts.
InterestWeight(loan) == loan.balance * loan.interestRate

\* n1 / d1 > n2 / d2 for d1, d2 > 0
FracGreater(n1, d1, n2, d2) == n1 * d2 > n2 * d1

\* get_interest_to_payment_ratio raises ZeroDivisionError on a zero payment.
IprRaises(loan) == loan.monthlyPayment = 0

\* ------------------------------------------------------------- heuristics
\* A heuristic is given a list of loans and answers the position of the loan
\* it returns; position 0 stands for the initial None of the scan.

first_loan_heuristic(loans) == 1

\* random.randint(1, len(loans)): any position.
random_heuristic(loans) == 1..Len(loans)

RECURSIVE max_balance_scan(_, _, _)
max_balance_scan(loans, i, best) ==
    IF i > Len(loans) THEN best
    ELSE LET maxBalance == IF best = 0 THEN -Scale ELSE loans[best].balance
         IN  max_balance_scan(loans, i + 1,
                 IF loans[i].balance > maxBalance THEN i ELSE best)

max_balance_heuristic(loans) == max_balance_scan(loans, 1, 0)

RECURSIVE max_interest_rate_scan(_, _, _)
max_interest_rate_scan(loans, i, best) ==
    IF i > Len(loans) THEN best
    ELSE LET maxInterest == IF best = 0 THEN -100 ELSE loans[best].interestRate
             next == IF loans[i].interestRate > maxInterest THEN i
                     ELSE IF loans[i].interestRate = maxInterest
                             /\ loans[i].balance > loans[best].balance THEN i
                     ELSE best
         IN  max_interest_rate_scan(loans, i + 1, next)

\* max_interest_rate_heuristic settling a tie of rates with balance >=.
RECURSIVE max_interest_rate_last_tie_scan(_, _, _)
max_interest_rate_last_tie_scan(loans, i, best) ==
    IF i > Len(loans) THEN best
    ELSE LET maxInterest == IF best = 0 THEN -100 ELSE loans[best].interestRate
             next == IF loans[i].interestRate > maxInterest THEN i
                     ELSE IF loans[i].interestRate = maxInterest
                             /\ loans[i].balance >= loans[best].balance THEN i
                     ELSE best
         IN  max_interest_rate_last_tie_scan(loans, i + 1, next)

max_interest_rate_last_tie(loans) == max_interest_rate_last_tie_scan(loans, 1, 0)

max_interest_rate_heuristic(loans) == max_interest_rate_scan(loans, 1, 0)

\* interest = get_interest_accrued(365.0), kept while strictly greater; the
\* first loan replaces the initial -1 because its interest is >= 0.
RECURSIVE max_interest_accrual_scan(_, _, _)
max_interest_accrual_scan(loans, i, best) ==
    IF i > Len(loans) THEN best
    ELSE LET greater == IF best = 0 THEN InterestWeight(loans[i]) >= 0
                        ELSE InterestWeight(loans[i]) > InterestWeight(loans[best])
         IN  max_interest_accrual_scan(loans, i + 1, IF greater THEN i ELSE best)

\* max_interest_accrual_heuristic with maxInterest starting at 0 instead of -1.
RECURSIVE max_interest_accrual_from_zero_scan(_, _, _)
max_interest_accrual_from_zero_scan(loans, i, best) ==
    IF i > Len(loans) THEN best
    ELSE LET greater == IF best = 0 THEN InterestWeight(loans[i]) > 0
                        ELSE InterestWeight(loans[i]) > InterestWeight(loans[best])
         IN  max_interest_accrual_from_zero_scan(loans, i + 1, IF greater THEN i ELSE best)

max_interest_accrual_from_zero(loans) == max_interest_accrual_from_zero_scan(loans, 1, 0)

max_interest_accrual_heuristic(loans) == max_interest_accrual_scan(loans, 1, 0)

\* ipr = get_interest_to_payment_ratio(daysSinceLastPayment), kept while
\* strictly greater; a first ipr >= 0 replaces the initial -1.
RECURSIVE max_ipr_scan(_, _, _)
max_ipr_scan(loans, i, best) ==
    IF i > Len(loans) THEN best
    ELSE LET greater == IF best = 0 THEN InterestWeight(loans[i]) >= 0
                        ELSE FracGreater(InterestWeight(loans[i]), loans[i].monthlyPayment,
                                         InterestWeight(loans[best]), loans[best].monthlyPayment)
         IN  max_ipr_scan(loans, i + 1, IF greater THEN i ELSE best)

max_ipr_heuristic(loans) == max_ipr_scan(loans, 1, 0)

\* pct = (monthlyPayment - interest) / monthlyPayment = 1 - interest / monthlyPayment,
\* kept while strictly less: pct_i < pct_best exactly when
\* interest_i / monthlyPayment_i > interest_best / monthlyPayment_best.  The
\* first pct (at most 1) replaces the initial sys.maxint.
RECURSIVE min_percent_payment_applied_scan(_, _, _)
min_percent_payment_applied_scan(loans, i, best) ==
    IF i > Len(loans) THEN best
    ELSE LET less == IF best = 0 THEN TRUE
                     ELSE FracGreater(InterestWeight(loans[i]), loans[i].monthlyPayment,
                                      InterestWeight(loans[best]), loans[best].monthlyPayment)
         IN  min_percent_payment_applied_scan(loans, i + 1, IF less THEN i ELSE best)

min_percent_payment_applied_heuristic(loans) == min_percent_payment_applied_scan(loans, 1, 0)

\* inspect.getmembers answers the members sorted by name.
ALL_HEURISTICS ==
    << "first_loan_heuristic", "max_balance_heuristic", "max_interest_accrual_heuristic",
       "max_interest_rate_heuristic", "max_ipr_heuristic",
       "min_percent_payment_applied_heuristic", "random_heuristic" >>

Heuristics == {ALL_HEURISTICS[i] : i \in 1..Len(ALL_HEURISTICS)}

\* The call heuristic(loans, DAYS_PER_MONTH) raises ZeroDivisionError: the two
\* ratio heuristics divide by the monthlyPayment of every loan they scan.
HeuristicRaises(heuristic, loans) ==
    /\ heuristic \in {"max_ipr_heuristic", "min_percent_payment_applied_heuristic"}
    /\ \E i \in 1..Len(loans) : IprRaises(loans[i])

\* The positions the call heuristic(loans, DAYS_PER_MONTH) can return.
HeuristicChoice(heuristic, loans) ==
    CASE heuristic = "first_loan_heuristic" -> {first_loan_heuristic(loans)}
      [] heuristic = "random_heuristic" -> random_heuristic(loans)
      [] heuristic = "max_balance_heuristic" -> {max_balance_heuristic(loans)}
      [] heuristic = "max_interest_rate_heuristic" -> {max_interest_rate_heuristic(loans)}
      [] heuristic = "max_interest_accrual_heuristic" -> {max_interest_accrual_heuristic(loans)}
      [] heuristic = "max_ipr_heuristic" -> {max_ipr_heuristic(loans)}
      [] heuristic = "min_percent_payment_applied_heuristic" ->
             {min_percent_payment_applied_heuristic(loans)}

\* ------------------------------------------------------------------ state

VARIABLES
    \* LoanConfig
    cfgLoans,               \* loanConfig.loans
    upfrontPayment,         \* loanConfig.upfrontPayment
    monthlyIncrease,        \* loanConfig.monthlyIncrease
    dateOfBirth,            \* loanConfig.dateOfBirth
    now,                    \* the date datetime.now() answers
    \* LoanPlanner
    pc,                     \* where the program is
    scenario,               \* "initial" or "changed": the loop that runs the device
    hIdx,                   \* position in ALL_HEURISTICS of _do_initial_payments' loop
    changedTodo,            \* heuristics _do_changed_payments' loop has yet to visit
    initialPaymentDevices,  \* heuristic -> device
    changedPaymentDevices,  \* heuristic -> device
    bestInitialPlan,        \* None or the key of a device of initialPaymentDevices
    bestChangedPlan,        \* None or the key of a device of changedPaymentDevices
    \* the PaymentDevice that is running
    allocationDecider,
    bestDevice,             \* None or the key of the reference device in its scenario
    originalLoans,
    loans,                  \* the working set; None before pay_loans
    paymentStats,
    paymentPlan,
    currentDate,
    paidLoans,
    status,
    timeSoFar,              \* _handle_paid_loans' timeSoFar
    paidIdx,                \* position in paidLoans of the loan _handle_paid_loans is at
    dollar,                 \* _handle_paid_loan's loop variable
    increasedLoans,         \* _handle_paid_loan's increasedLoans: name -> increase
    raised,                 \* the exception that ended the program, or None
    \* history of the running device
    paymentLog,             \* the payments made: loan as it was after interest, date
    removedLog,             \* the loans removed from the working set, as removed
    unitLog,                \* the units handed out: eligible list, recipient
    lastSimulated,          \* the last day the day loop simulated, if any: << >> or << day >>
    runLog,                 \* the devices constructed: scenario, heuristic, result
    replay,                 \* << >>, or << the totals of the pruned run that is run again >>
    \* a function of the program applied on its own
    call                    \* the function, its arguments, what it returned

cfgVars == << cfgLoans, upfrontPayment, monthlyIncrease, dateOfBirth, now >>

plannerVars == << scenario, hIdx, changedTodo, initialPaymentDevices, changedPaymentDevices,
                  bestInitialPlan, bestChangedPlan, runLog, replay >>

handleVars == << timeSoFar, paidIdx, dollar, increasedLoans, unitLog >>

deviceVars == << allocationDecider, bestDevice, originalLoans, loans, paymentStats,
                 paymentPlan, currentDate, paidLoans, status, paymentLog, removedLog,
                 lastSimulated >>

vars == << cfgVars, plannerVars, handleVars, deviceVars, pc, raised, call >>

\* ----------------------------------------------------------------- inputs

\* int(x) of a non-negative amount: its whole currency units.
WholeUnits(x) == x \div Scale

\* A loan of the configuration file, from << balance in half units, interest
\* rate in percent, monthly payment in units, payment day >>.
TemplateLoan(name, t) == Loan(name, (t[1] * Scale) \div 2, t[2], t[3] * Scale, t[4])

Portfolio(ts) == [i \in 1..Len(ts) |-> TemplateLoan(i, ts[i])]

NothingOwed == << 0, 0, 1, 29 >>
PaidAtOnce == << 2, 0, 2, 29 >>
ZeroPayment == << 4, 10, 0, 1 >>       \* MonthlyPayment left at its default 0
LastDay == << 2, 0, 1, 31 >>

\* The files without changes of plan.
Portfolios ==
    { << >>,
      << NothingOwed >>,
      << PaidAtOnce >>,
      << NothingOwed, PaidAtOnce, PaidAtOnce >>,
      << PaidAtOnce, ZeroPayment >>,
      << LastDay >>,
      << LastDay, << 14, 60, 2, 30 >> >>,
      << LastDay, << 3, 60, 2, 30 >>, << 14, 60, 2, 30 >> >>,
      << PaidAtOnce, << 3, 360, 1, 30 >>, << 6, 60, 1, 30 >> >>,
      << PaidAtOnce, << 7, 120, 2, 30 >>, << 8, 60, 1, 30 >> >>,
      << PaidAtOnce, << 14, 60, 2, 30 >>, << 7, 120, 2, 30 >> >>,
      << PaidAtOnce, << 3, 60, 1, 30 >>, << 5, 60, 1, 30 >> >>,
      << PaidAtOnce, << 3, 60, 1, 30 >> >> }

\* The files read a month earlier: the loans have a third payment.
EarlyPortfolios == { << PaidAtOnce, << 7, 120, 2, 30 >>, << 8, 60, 1, 30 >> >> }

\* The files whose [Options] change the plan: UpfrontPayment, MonthlyIncrease.
ChangedPortfolios ==
    { << PaidAtOnce, << 14, 60, 2, 30 >>, << 7, 120, 2, 30 >> >>,
      << NothingOwed, PaidAtOnce, PaidAtOnce >> }

PlanChanges == { << Scale \div 2, 0 >>, << Scale, 0 >>, << 0, Scale >> }

DefaultBirthDate == Date(1900, 1, 1)

LeapDayBirthDate == Date(2000, 2, 29)

StartDate == Date(MAX_YEAR - 1, 11, 29)

EarlyStartDate == Date(MAX_YEAR - 1, 10, 29)

Input(ts, change, dob, start) ==
    [loans |-> Portfolio(ts), upfrontPayment |-> change[1], monthlyIncrease |-> change[2],
     dateOfBirth |-> dob, now |-> start]

Inputs ==
    { Input(ts, << 0, 0 >>, DefaultBirthDate, StartDate) : ts \in Portfolios }
    \cup { Input(ts, ch, DefaultBirthDate, StartDate) : ts \in ChangedPortfolios, ch \in PlanChanges }
    \cup { Input(ts, << 0, 0 >>, LeapDayBirthDate, StartDate) : ts \in { << PaidAtOnce >> } }
    \cup { Input(ts, << 0, 0 >>, DefaultBirthDate, Date(MAX_YEAR, 1, 1)) : ts \in { << PaidAtOnce >> } }
    \cup { Input(ts, << 0, 0 >>, DefaultBirthDate, EarlyStartDate) : ts \in EarlyPortfolios }

\* PaymentStats.__init__ (absolute); yearsPaid is kept in twelfths of a year.
PaymentStats(dob) ==
    [dateOfBirth |-> dob, startDate |-> None, finishDate |-> None, amountPaid |-> 0,
     monthsPaid |-> 0, yearsPaid |-> 0, finishAge |-> 0]

Entry(kind, name, n, amount) == [kind |-> kind, name |-> name, n |-> n, amount |-> amount]

NoDict == [h \in {} |-> None]

\* The state before find_best_plan, for a configuration file of `inputs`.
InitOf(inputs) ==
    /\ \E in \in inputs :
          /\ cfgLoans = in.loans
          /\ upfrontPayment = in.upfrontPayment
          /\ monthlyIncrease = in.monthlyIncrease
          /\ dateOfBirth = in.dateOfBirth
          /\ now = in.now
    /\ pc = "find_best_plan"
    /\ scenario = "initial"
    /\ hIdx = 1
    /\ changedTodo = {}
    /\ initialPaymentDevices = NoDict
    /\ changedPaymentDevices = NoDict
    /\ bestInitialPlan = None
    /\ bestChangedPlan = None
    /\ allocationDecider = None
    /\ bestDevice = None
    /\ originalLoans = << >>
    /\ loans = None
    /\ paymentStats = PaymentStats(dateOfBirth)
    /\ paymentPlan = << >>
    /\ currentDate = None
    /\ paidLoans = << >>
    /\ status = FALSE
    /\ timeSoFar = None
    /\ paidIdx = 0
    /\ dollar = 0
    /\ increasedLoans = NoDict
    /\ raised = None
    /\ paymentLog = << >>
    /\ removedLog = << >>
    /\ unitLog = << >>
    /\ lastSimulated = << >>
    /\ runLog = << >>
    /\ replay = << >>

\* No function is applied on its own.
NoCall == [fn |-> None, args |-> << >>, returned |-> << >>]

Init == InitOf(Inputs) /\ call = NoCall

\* ---------------------------------------------------------------- helpers

IndexOf(q, name) == CHOOSE i \in 1..Len(q) : q[i].name = name

RemoveAt(q, i) == SubSeq(q, 1, i - 1) \o SubSeq(q, i + 1, Len(q))

\* The numbers of a set in increasing order.
RECURSIVE Ascending(_)
Ascending(S) ==
    IF S = {} THEN << >>
    ELSE LET m == CHOOSE x \in S : \A y \in S : x <= y
         IN  << m >> \o Ascending(S \ {m})

\* ---------------------------------------------------------- PaymentDevice

\* The device as the planner holds it once pay_loans has returned: the fields
\* that are read from a device that has run (its reference is not among them).
ThisDevice ==
    [allocationDecider |-> allocationDecider, originalLoans |-> originalLoans,
     loans |-> loans, paymentStats |-> paymentStats, paymentPlan |-> paymentPlan]

Devices(sc) == IF sc = "initial" THEN initialPaymentDevices ELSE changedPaymentDevices

\* PaymentDevice.__init__ looking for a balance < 0 instead of <= 0.
RECURSIVE FinishedAtStart_negative(_)
FinishedAtStart_negative(ls) ==
    IF ls = << >> THEN << >>
    ELSE (IF Head(ls).balance < 0
          THEN << Entry("finished_at_start", Head(ls).name, 0, 0) >> ELSE << >>)
         \o FinishedAtStart_negative(Tail(ls))

\* PaymentDevice.__init__: the trace entries of the loans with nothing owed.
RECURSIVE FinishedAtStart(_)
FinishedAtStart(ls) ==
    IF ls = << >> THEN << >>
    ELSE (IF Head(ls).balance <= 0
          THEN << Entry("finished_at_start", Head(ls).name, 0, 0) >> ELSE << >>)
         \o FinishedAtStart(Tail(ls))

\* PaymentDevice(dateOfBirth, ls, heuristic, best).pay_loans(), up to the loop:
\* the constructor, the copy of the loans that owe something, the start date.
\* The k-th device the program makes works on copy 2k of its loans (copy
\* 2k - 1 is the one _do_changed_payments makes for it).
StartDevice(sc, ls, heuristic, best) ==
    /\ scenario' = sc
    /\ allocationDecider' = heuristic
    /\ bestDevice' = best
    /\ originalLoans' = ls
    /\ paymentStats' = [PaymentStats(dateOfBirth) EXCEPT !.startDate = now]
    /\ paymentPlan' = FinishedAtStart(ls)
    /\ loans' = deepcopy(SelectSeq(ls, LAMBDA x : x.balance > 0), 2 * (Len(runLog) + 1))
    /\ status' = (Len(loans') > 0)
    /\ currentDate' = now
    /\ paidLoans' = << >>
    /\ timeSoFar' = None
    /\ paidIdx' = 0
    /\ dollar' = 0
    /\ increasedLoans' = NoDict
    /\ paymentLog' = << >>
    /\ removedLog' = << >>
    /\ unitLog' = << >>
    /\ lastSimulated' = << >>
    /\ runLog' = Append(runLog, [scenario |-> sc, heuristic |-> heuristic, returned |-> FALSE,
                                  status |-> FALSE, amountPaid |-> 0])
    /\ pc' = "pay_loans"

\* _should_prune_plan with a comparison that includes equality.
should_prune_plan_on_tie ==
    IF bestDevice = None THEN FALSE
    ELSE paymentStats.amountPaid >= Devices(scenario)[bestDevice].paymentStats.amountPaid

\* _should_prune_plan with the comparison turned round.
should_prune_plan_below ==
    IF bestDevice = None THEN FALSE
    ELSE paymentStats.amountPaid < Devices(scenario)[bestDevice].paymentStats.amountPaid

_should_prune_plan ==
    IF bestDevice = None THEN FALSE
    ELSE paymentStats.amountPaid > Devices(scenario)[bestDevice].paymentStats.amountPaid

\* _make_loan_payment with the payment taken before the interest is added.
make_loan_payment_before_interest(loan, daysSinceLastPayment) ==
    LET accrued == [loan EXCEPT !.balance =
                        loan.balance + get_interest_accrued(loan, daysSinceLastPayment)]
        payment == get_payment_amount(loan)
    IN  [accrued |-> accrued, payment |-> payment,
         loan |-> [accrued EXCEPT !.balance = accrued.balance - payment],
         paid |-> (accrued.balance - payment <= 0)]

\* _make_loan_payment answering "paid off" for a loan in its last period.
make_loan_payment_last_period(loan, daysSinceLastPayment) ==
    LET accrued == [loan EXCEPT !.balance =
                        loan.balance + get_interest_accrued(loan, daysSinceLastPayment)]
        payment == get_payment_amount(accrued)
    IN  [accrued |-> accrued, payment |-> payment,
         loan |-> [accrued EXCEPT !.balance = accrued.balance - payment],
         paid |-> (accrued.balance - payment <= accrued.monthlyPayment)]

\* _make_loan_payment: the loan with its interest added, the payment, the loan
\* after the payment, and the boolean returned.
_make_loan_payment(loan, daysSinceLastPayment) ==
    LET accrued == [loan EXCEPT !.balance =
                        loan.balance + get_interest_accrued(loan, daysSinceLastPayment)]
        payment == get_payment_amount(accrued)
    IN  [accrued |-> accrued, payment |-> payment,
         loan |-> [accrued EXCEPT !.balance = accrued.balance - payment],
         paid |-> (accrued.balance - payment <= 0)]

\* The for loop of _make_payments_on_date over the loans due, from the k-th on.
RECURSIVE make_payments_loop(_, _, _, _, _)
make_payments_loop(due, k, days, date, acc) ==
    IF k > Len(due) THEN acc
    ELSE LET r == _make_loan_payment(due[k], days)
             at == IndexOf(acc.loans, due[k].name)
             isPaid == r.paid
         IN  make_payments_loop(due, k + 1, days, date,
                 [loans |-> IF isPaid THEN RemoveAt(acc.loans, at)
                            ELSE [acc.loans EXCEPT ![at] = r.loan],
                  paidLoans |-> IF isPaid THEN Append(acc.paidLoans, r.loan) ELSE acc.paidLoans,
                  amountPaid |-> acc.amountPaid + r.payment,
                  paymentLog |-> Append(acc.paymentLog,
                                    [loan |-> r.accrued, payment |-> r.payment,
                                     after |-> r.loan.balance, date |-> date,
                                     days |-> days]),
                  removedLog |-> IF isPaid THEN Append(acc.removedLog, r.loan)
                                 ELSE acc.removedLog])

_make_payments_on_date(paymentDate) ==
    LET due == SelectSeq(loans, LAMBDA x : x.paymentDay = paymentDate.day)
        lastPaymentDate == ONE_MONTH_DELTA(paymentDate)
        daysSinceLastPayment == DaysBetween(paymentDate, lastPaymentDate)
    IN  make_payments_loop(due, 1, daysSinceLastPayment, paymentDate,
            [loans |-> loans, paidLoans |-> << >>, amountPaid |-> paymentStats.amountPaid,
             paymentLog |-> paymentLog, removedLog |-> removedLog])

\* pay_loans: the test of `while self.loans and status`, true.
EnterDayLoop ==
    /\ pc = "pay_loans"
    /\ loans # << >> /\ status
    /\ paidLoans' = << >>
    /\ pc' = "day_loop"
    /\ UNCHANGED << call, cfgVars, plannerVars, handleVars, allocationDecider, bestDevice,
                    originalLoans, loans, paymentStats, paymentPlan, currentDate, status,
                    paymentLog, removedLog, lastSimulated, raised >>

DayLoopRuns == paidLoans = << >> /\ currentDate.year < MAX_YEAR

\* _make_payments_until_loan_paid: the plan is pruned, the loop is left.
PrunePlan ==
    /\ pc = "day_loop"
    /\ DayLoopRuns
    /\ _should_prune_plan
    /\ paymentPlan' = Append(paymentPlan, Entry("prune", None, 0, paymentStats.amountPaid))
    /\ pc' = "handle_paid_loans"
    /\ UNCHANGED << call, cfgVars, plannerVars, handleVars, allocationDecider, bestDevice,
                    originalLoans, loans, paymentStats, currentDate, paidLoans, status,
                    paymentLog, removedLog, lastSimulated, raised >>

\* _make_payments_until_loan_paid: one day of the loop.
MakePaymentsOnDate ==
    /\ pc = "day_loop"
    /\ DayLoopRuns
    /\ ~_should_prune_plan
    /\ LET r == _make_payments_on_date(currentDate)
           written == { [r.paymentLog[i].loan EXCEPT !.balance = r.paymentLog[i].after] :
                            i \in (Len(paymentLog) + 1)..Len(r.paymentLog) }
       IN  /\ loans' = r.loans
           /\ paidLoans' = r.paidLoans
           /\ paymentStats' = [paymentStats EXCEPT !.amountPaid = r.amountPaid]
           /\ paymentLog' = r.paymentLog
           /\ removedLog' = r.removedLog
           /\ cfgLoans' = Assigned(cfgLoans, written)
           /\ originalLoans' = Assigned(originalLoans, written)
           /\ initialPaymentDevices' = AssignedInDevices(initialPaymentDevices, written)
           /\ changedPaymentDevices' = AssignedInDevices(changedPaymentDevices, written)
    /\ lastSimulated' = << currentDate >>
    /\ currentDate' = ONE_DAY_DELTA(currentDate)
    /\ UNCHANGED << call, upfrontPayment, monthlyIncrease, dateOfBirth, now, scenario, hIdx,
                    changedTodo, bestInitialPlan, bestChangedPlan, runLog, replay, handleVars,
                    allocationDecider, bestDevice, paymentPlan, status, pc, raised >>

\* _make_payments_until_loan_paid: the loop ends, a loan was paid or MAX_YEAR
\* is reached.
LeaveDayLoop ==
    /\ pc = "day_loop"
    /\ ~DayLoopRuns
    /\ pc' = "handle_paid_loans"
    /\ UNCHANGED << call, cfgVars, plannerVars, handleVars, deviceVars, raised >>

\* _handle_paid_loans without a paid loan: the run has failed.
HandleNoPaidLoans ==
    /\ pc = "handle_paid_loans"
    /\ paidLoans = << >>
    /\ timeSoFar' = RelativeDelta(currentDate, paymentStats.startDate)
    /\ paymentPlan' = Append(paymentPlan, Entry("end_of_time", None, 0, 0))
    /\ status' = FALSE
    /\ pc' = "pay_loans"
    /\ UNCHANGED << call, cfgVars, plannerVars, paidIdx, dollar, increasedLoans, unitLog,
                    allocationDecider, bestDevice, originalLoans, loans, paymentStats,
                    currentDate, paidLoans, paymentLog, removedLog, lastSimulated, raised >>

\* _handle_paid_loan, up to its loop over the units of the paid loan's payment.
BeginPaidLoan(i) ==
    /\ paidIdx' = i
    /\ paymentPlan' = Append(paymentPlan,
                          Entry("finished", paidLoans[i].name, to_months(timeSoFar'), 0))
    /\ increasedLoans' = NoDict
    /\ dollar' = 0
    /\ unitLog' = << >>
    /\ pc' = "handle_paid_loan"

\* _handle_paid_loans with paid loans: the first of them is handled.
HandlePaidLoans ==
    /\ pc = "handle_paid_loans"
    /\ paidLoans # << >>
    /\ timeSoFar' = RelativeDelta(currentDate, paymentStats.startDate)
    /\ BeginPaidLoan(1)
    /\ UNCHANGED << call, cfgVars, plannerVars, allocationDecider, bestDevice, originalLoans,
                    loans, paymentStats, currentDate, paidLoans, status, paymentLog,
                    removedLog, lastSimulated, raised >>

\* getEligibleLoans without its filter.
getEligibleLoans_unfiltered == loans

\* Only consider loans which have a balance greater than its payment
getEligibleLoans == SelectSeq(loans, LAMBDA x : x.balance > x.monthlyPayment)

\* range(int(paidLoan.balance)): the units of what the paid loan still owes.
UnitsOfPaidLoan_of_balance ==
    IF paidLoans[paidIdx].balance > 0 THEN WholeUnits(paidLoans[paidIdx].balance) ELSE 0

UnitsOfPaidLoan == WholeUnits(paidLoans[paidIdx].monthlyPayment)

Increased(name) == IF name \in DOMAIN increasedLoans THEN increasedLoans[name] ELSE 0

\* One turn of `for dollar in range(int(paidLoan.monthlyPayment))` with no
\* eligible loan: the unit goes nowhere.
SkipDollar ==
    /\ pc = "handle_paid_loan"
    /\ dollar < UnitsOfPaidLoan
    /\ getEligibleLoans = << >>
    /\ dollar' = dollar + 1
    /\ unitLog' = Append(unitLog, [eligible |-> << >>, working |-> loans, loan |-> None,
                                   after |-> loans])
    /\ UNCHANGED << call, cfgVars, plannerVars, timeSoFar, paidIdx, increasedLoans, deviceVars,
                    pc, raised >>

\* The loop handing the whole payment of the paid loan out at every turn.
AllocateDollar_whole_payment ==
    /\ pc = "handle_paid_loan"
    /\ dollar < UnitsOfPaidLoan
    /\ getEligibleLoans # << >>
    /\ ~HeuristicRaises(allocationDecider, getEligibleLoans)
    /\ \E k \in HeuristicChoice(allocationDecider, getEligibleLoans) :
          LET name == getEligibleLoans[k].name
              at == IndexOf(loans, name)
          IN  /\ increasedLoans' = [n \in DOMAIN increasedLoans \cup {name} |->
                                        IF n = name THEN Increased(n) + 1 ELSE Increased(n)]
              /\ loans' = [loans EXCEPT ![at].monthlyPayment =
                                            @ + paidLoans[paidIdx].monthlyPayment]
              /\ unitLog' = Append(unitLog, [eligible |-> getEligibleLoans, working |-> loans,
                                             loan |-> name, after |-> loans'])
    /\ dollar' = dollar + 1
    /\ UNCHANGED << call, cfgVars, plannerVars, timeSoFar, paidIdx, allocationDecider,
                    bestDevice, originalLoans, paymentStats, paymentPlan, currentDate,
                    paidLoans, status, paymentLog, removedLog, lastSimulated, pc, raised >>

\* One turn of the loop with eligible loans: the heuristic names the loan whose
\* monthly payment grows by one unit.
AllocateDollar ==
    /\ pc = "handle_paid_loan"
    /\ dollar < UnitsOfPaidLoan
    /\ getEligibleLoans # << >>
    /\ ~HeuristicRaises(allocationDecider, getEligibleLoans)
    /\ \E k \in HeuristicChoice(allocationDecider, getEligibleLoans) :
          LET name == getEligibleLoans[k].name
              at == IndexOf(loans, name)
          IN  /\ increasedLoans' = [n \in DOMAIN increasedLoans \cup {name} |->
                                        IF n = name THEN Increased(n) + 1 ELSE Increased(n)]
              /\ loans' = [loans EXCEPT ![at].monthlyPayment = @ + Scale]
              /\ unitLog' = Append(unitLog, [eligible |-> getEligibleLoans, working |-> loans,
                                             loan |-> name, after |-> loans'])
              /\ cfgLoans' = Assigned(cfgLoans, {loans'[at]})
              /\ originalLoans' = Assigned(originalLoans, {loans'[at]})
              /\ initialPaymentDevices' = AssignedInDevices(initialPaymentDevices, {loans'[at]})
              /\ changedPaymentDevices' = AssignedInDevices(changedPaymentDevices, {loans'[at]})
    /\ dollar' = dollar + 1
    /\ UNCHANGED << call, upfrontPayment, monthlyIncrease, dateOfBirth, now, scenario, hIdx,
                    changedTodo, bestInitialPlan, bestChangedPlan, runLog, replay, timeSoFar,
                    paidIdx, allocationDecider, bestDevice, paymentStats, paymentPlan,
                    currentDate, paidLoans, status, paymentLog, removedLog, lastSimulated, pc,
                    raised >>

\* One turn of the loop in which the heuristic divides by a zero payment.
AllocateDollarRaises ==
    /\ pc = "handle_paid_loan"
    /\ dollar < UnitsOfPaidLoan
    /\ getEligibleLoans # << >>
    /\ HeuristicRaises(allocationDecider, getEligibleLoans)
    /\ raised' = "ZeroDivisionError"
    /\ pc' = "raised"
    /\ UNCHANGED << call, cfgVars, plannerVars, handleVars, deviceVars >>

\* The trace entries of the increases: one for each loan of increasedLoans (a
\* dict keyed by loan objects; its order is written here as the order of names).
RECURSIVE IncreaseEntries(_)
IncreaseEntries(names) ==
    IF names = << >> THEN << >>
    ELSE << Entry("increase", Head(names), increasedLoans[Head(names)],
                  loans[IndexOf(loans, Head(names))].monthlyPayment) >>
         \o IncreaseEntries(Tail(names))

\* _handle_paid_loan after its loop; _handle_paid_loans goes on to the next paid
\* loan or returns True.
EndPaidLoan ==
    /\ pc = "handle_paid_loan"
    /\ dollar >= UnitsOfPaidLoan
    /\ LET done == paymentPlan \o IncreaseEntries(Ascending(DOMAIN increasedLoans))
                       \o << Entry("newline", None, 0, 0) >>
       IN  IF paidIdx < Len(paidLoans)
           THEN /\ paidIdx' = paidIdx + 1
                /\ paymentPlan' = Append(done,
                       Entry("finished", paidLoans[paidIdx + 1].name, to_months(timeSoFar), 0))
                /\ increasedLoans' = NoDict
                /\ dollar' = 0
                /\ unitLog' = << >>
                /\ UNCHANGED << status, pc >>
           ELSE /\ paymentPlan' = done
                /\ status' = TRUE
                /\ pc' = "pay_loans"
                /\ UNCHANGED << paidIdx, increasedLoans, dollar, unitLog >>
    /\ UNCHANGED << call, cfgVars, plannerVars, timeSoFar, allocationDecider, bestDevice,
                    originalLoans, loans, paymentStats, currentDate, paidLoans, paymentLog,
                    removedLog, lastSimulated, raised >>

\* _collect_payment_stats, up to the call of get_age_on_date.
StatsBeforeAge ==
    LET timeDiff == RelativeDelta(currentDate, paymentStats.startDate)
    IN  [paymentStats EXCEPT !.finishDate = currentDate,
                             !.monthsPaid = to_months(timeDiff),
                             !.yearsPaid = to_months(timeDiff)]

\* pay_loans: the loop is over and the run returns its status.
ReturnFromPayLoans ==
    /\ pc = "pay_loans"
    /\ ~(loans # << >> /\ status)
    /\ IF ~status
       THEN pc' = "returned" /\ UNCHANGED << paymentStats, raised >>
       ELSE IF ReplaceYearRaises(paymentStats.dateOfBirth, currentDate.year)
       THEN /\ paymentStats' = StatsBeforeAge
            /\ raised' = "ValueError"
            /\ pc' = "raised"
       ELSE /\ paymentStats' = [StatsBeforeAge EXCEPT !.finishAge =
                                    get_age_on_date(paymentStats.dateOfBirth, currentDate)]
            /\ pc' = "returned"
            /\ UNCHANGED raised
    /\ UNCHANGED << call, cfgVars, plannerVars, handleVars, allocationDecider, bestDevice,
                    originalLoans, loans, paymentPlan, currentDate, paidLoans, status,
                    paymentLog, removedLog, lastSimulated >>

\* ------------------------------------------------------------ LoanPlanner

\* LoanConfig.parsed
parsed == Len(cfgLoans) > 0

\* LoanConfig.any_changes
any_changes == (upfrontPayment > 0) \/ (monthlyIncrease > 0)

\* _get_best_payment_plan, from the point where the plans of `rest` are still
\* to come and bestPlan is `best`.  The plans are the values of a dict keyed by
\* function objects, whose order of iteration is that of the keys' addresses:
\* every order is possible, and the result is the set of the plans some order
\* returns.
RECURSIVE get_best_scan(_, _, _)
get_best_scan(plans, rest, best) ==
    IF rest = {} THEN {best}
    ELSE UNION { LET amountPaid == plans[h].paymentStats.amountPaid
                     lowestAmountPaid == IF best # None
                                         THEN plans[best].paymentStats.amountPaid ELSE 0
                 IN  get_best_scan(plans, rest \ {h},
                         IF best = None \/ amountPaid < lowestAmountPaid THEN h ELSE best)
                 : h \in rest }

\* _get_best_payment_plan with the comparison turned round.
RECURSIVE get_dearest_scan(_, _, _)
get_dearest_scan(plans, rest, best) ==
    IF rest = {} THEN {best}
    ELSE UNION { LET amountPaid == plans[h].paymentStats.amountPaid
                     lowestAmountPaid == IF best # None
                                         THEN plans[best].paymentStats.amountPaid ELSE 0
                 IN  get_dearest_scan(plans, rest \ {h},
                         IF best = None \/ amountPaid > lowestAmountPaid THEN h ELSE best)
                 : h \in rest }

get_dearest_payment_plan(listOfPaymentPlans) ==
    get_dearest_scan(listOfPaymentPlans, DOMAIN listOfPaymentPlans, None)

_get_best_payment_plan(listOfPaymentPlans) ==
    get_best_scan(listOfPaymentPlans, DOMAIN listOfPaymentPlans, None)

\* The log of the devices once the value pay_loans returned is known.
Recorded ==
    [runLog EXCEPT ![Len(runLog)].returned = TRUE,
                   ![Len(runLog)].status = status,
                   ![Len(runLog)].amountPaid = paymentStats.amountPaid]

WithDevice(plans, heuristic) ==
    [h \in DOMAIN plans \cup {heuristic} |-> IF h = heuristic THEN ThisDevice ELSE plans[h]]

\* find_best_plan: nothing is done for a configuration without loans.
FindBestPlan ==
    /\ pc = "find_best_plan"
    /\ pc' = IF parsed THEN "initial" ELSE "exit"
    /\ UNCHANGED << call, cfgVars, plannerVars, handleVars, deviceVars, raised >>

\* _do_initial_payments: the device of the next heuristic is made and run.
StartInitialRun ==
    /\ pc = "initial"
    /\ hIdx <= Len(ALL_HEURISTICS)
    /\ StartDevice("initial", cfgLoans, ALL_HEURISTICS[hIdx], bestInitialPlan)
    /\ UNCHANGED << call, cfgVars, hIdx, changedTodo, initialPaymentDevices, changedPaymentDevices,
                    bestInitialPlan, bestChangedPlan, replay, raised >>

\* _do_initial_payments keeping the device whatever pay_loans returned.
RecordInitialRun_unconditional ==
    /\ pc = "returned"
    /\ scenario = "initial"
    /\ initialPaymentDevices' = WithDevice(initialPaymentDevices, allocationDecider)
    /\ bestInitialPlan' \in _get_best_payment_plan(initialPaymentDevices')
    /\ hIdx' = hIdx + 1
    /\ runLog' = Recorded
    /\ pc' = "initial"
    /\ UNCHANGED << call, cfgVars, scenario, changedTodo, changedPaymentDevices, bestChangedPlan,
                    replay, handleVars, deviceVars, raised >>

\* _do_initial_payments: pay_loans has returned.
RecordInitialRun ==
    /\ pc = "returned"
    /\ scenario = "initial"
    /\ IF status
       THEN /\ initialPaymentDevices' = WithDevice(initialPaymentDevices, allocationDecider)
            /\ bestInitialPlan' \in _get_best_payment_plan(initialPaymentDevices')
       ELSE UNCHANGED << initialPaymentDevices, bestInitialPlan >>
    /\ hIdx' = hIdx + 1
    /\ runLog' = Recorded
    /\ pc' = "initial"
    /\ UNCHANGED << call, cfgVars, scenario, changedTodo, changedPaymentDevices, bestChangedPlan,
                    replay, handleVars, deviceVars, raised >>

\* _do_initial_payments returns; find_best_plan goes on to the changed plans
\* when a run has succeeded and the options change the plan.
EndInitialRuns ==
    /\ pc = "initial"
    /\ hIdx > Len(ALL_HEURISTICS)
    /\ IF DOMAIN initialPaymentDevices # {} /\ any_changes
       THEN /\ changedTodo' = DOMAIN initialPaymentDevices
            /\ pc' = "changed"
       ELSE /\ pc' = "exit"
            /\ UNCHANGED changedTodo
    /\ UNCHANGED << call, cfgVars, scenario, hIdx, initialPaymentDevices, changedPaymentDevices,
                    bestInitialPlan, bestChangedPlan, runLog, replay, handleVars, deviceVars,
                    raised >>

\* PaymentDevice has the attributes ONE_DAY_DELTA, ONE_MONTH_DELTA and MAX_YEAR:
\* the expression payment_device.PaymentDevice.DAYS_PER_MONTH raises
\* AttributeError.
PaymentDeviceHasDaysPerMonth == FALSE

\* _allocate_upfront_payment raises: a unit of the upfront payment, or a unit of
\* the payment of a loan with nothing owed, reaches the call of the heuristic.
AllocateUpfrontRaises(ls) ==
    /\ ~PaymentDeviceHasDaysPerMonth
    /\ \/ WholeUnits(upfrontPayment) >= 1
       \/ \E i \in 1..Len(ls) : ls[i].balance <= 0 /\ WholeUnits(ls[i].monthlyPayment) >= 1

\* _allocate_monthly_increase raises.
AllocateMonthlyRaises(ls) ==
    /\ ~PaymentDeviceHasDaysPerMonth
    /\ WholeUnits(monthlyIncrease) >= 1

\* _do_changed_payments: the loop takes a heuristic of initialPaymentDevices (a
\* dict: any of those left), allocates the changes on a copy of the loans, and
\* makes and runs the device.  An allocation that does not raise has handed out
\* no unit and leaves the copy as it is.
StartChangedRun ==
    /\ pc = "changed"
    /\ \E heuristic \in changedTodo :
          /\ changedTodo' = changedTodo \ {heuristic}
          /\ IF AllocateUpfrontRaises(cfgLoans) \/ AllocateMonthlyRaises(cfgLoans)
             THEN /\ raised' = "AttributeError"
                  /\ pc' = "raised"
                  /\ UNCHANGED << scenario, runLog, handleVars, deviceVars >>
             ELSE /\ StartDevice("changed", deepcopy(cfgLoans, (2 * Len(runLog)) + 1),
                                  heuristic, bestChangedPlan)
                  /\ UNCHANGED raised
    /\ UNCHANGED << call, cfgVars, hIdx, initialPaymentDevices, changedPaymentDevices,
                    bestInitialPlan, bestChangedPlan, replay >>

\* _do_changed_payments: pay_loans has returned.
RecordChangedRun ==
    /\ pc = "returned"
    /\ scenario = "changed"
    /\ IF status
       THEN /\ changedPaymentDevices' = WithDevice(changedPaymentDevices, allocationDecider)
            /\ bestChangedPlan' \in _get_best_payment_plan(changedPaymentDevices')
       ELSE UNCHANGED << changedPaymentDevices, bestChangedPlan >>
    /\ runLog' = Recorded
    /\ pc' = "changed"
    /\ UNCHANGED << call, cfgVars, scenario, hIdx, changedTodo, initialPaymentDevices,
                    bestInitialPlan, replay, handleVars, deviceVars, raised >>

\* _do_changed_payments returns, and find_best_plan with it.
EndChangedRuns ==
    /\ pc = "changed"
    /\ changedTodo = {}
    /\ pc' = "exit"
    /\ UNCHANGED << call, cfgVars, plannerVars, handleVars, deviceVars, raised >>

Next ==
    \/ FindBestPlan
    \/ StartInitialRun
    \/ RecordInitialRun
    \/ EndInitialRuns
    \/ StartChangedRun
    \/ RecordChangedRun
    \/ EndChangedRuns
    \/ EnterDayLoop
    \/ PrunePlan
    \/ MakePaymentsOnDate
    \/ LeaveDayLoop
    \/ HandleNoPaidLoans
    \/ HandlePaidLoans
    \/ SkipDollar
    \/ AllocateDollar
    \/ AllocateDollarRaises
    \/ EndPaidLoan
    \/ ReturnFromPayLoans

Spec == Init /\ [][Next]_vars

\* ------------------------------------------------ a pruned run, run again
\* The device of a run that was pruned is made again from the same loans, with
\* the same heuristic and on the same day, and with bestDevice left at its
\* default None, so that the totals of the two runs can be compared.

Pruned == \E i \in 1..Len(paymentPlan) : paymentPlan[i].kind = "prune"

\* PaymentDevice(dateOfBirth, loans, heuristic).pay_loans() for the device that
\* has just returned pruned.
StartReplay ==
    /\ pc = "returned"
    /\ scenario = "initial"
    /\ replay = << >>
    /\ Pruned
    /\ allocationDecider # "random_heuristic"
    /\ replay' = << [reference |-> initialPaymentDevices[bestDevice].paymentStats.amountPaid,
                     prunedAt |-> paymentStats.amountPaid] >>
    /\ StartDevice("replay", originalLoans, allocationDecider, None)
    /\ UNCHANGED << call, cfgVars, hIdx, changedTodo, initialPaymentDevices, changedPaymentDevices,
                    bestInitialPlan, bestChangedPlan, raised >>

\* The second run has returned: there is nothing more to compare.
EndReplay ==
    /\ pc = "returned"
    /\ scenario = "replay"
    /\ pc' = "exit"
    /\ UNCHANGED << call, cfgVars, plannerVars, handleVars, deviceVars, raised >>

ReplayNext == Next \/ StartReplay \/ EndReplay

\* More files read a month early, in which a run is pruned that would have
\* paid all its loans.
ReplayPortfolios ==
    { << PaidAtOnce, << 5, 240, 1, 30 >>, << 7, 120, 1, 30 >> >>,
      << PaidAtOnce, << 5, 240, 2, 30 >>, << 14, 120, 2, 30 >> >>,
      << PaidAtOnce, << 6, 240, 1, 30 >>, << 7, 0, 2, 30 >> >>,
      << PaidAtOnce, << 7, 120, 2, 30 >>, << 9, 60, 1, 30 >> >> }

ReplayInputs ==
    Inputs \cup { Input(ts, << 0, 0 >>, DefaultBirthDate, EarlyStartDate) : ts \in ReplayPortfolios }

ReplayInit == InitOf(ReplayInputs) /\ call = NoCall

ReplaySpec == ReplayInit /\ [][ReplayNext]_vars

\* ------------------------------------------------ payment days late in a month
\* Files whose loans are due on a day that some months do not have, read early
\* enough for a second payment.

LateDayPortfolios == { << << 6, 60, 1, 31 >> >>, << PaidAtOnce, << 6, 60, 1, 31 >> >> }

CalendarInputs ==
    Inputs \cup { Input(ts, << 0, 0 >>, DefaultBirthDate, EarlyStartDate) :
                     ts \in LateDayPortfolios }

CalendarInit == InitOf(CalendarInputs) /\ call = NoCall

CalendarSpec == CalendarInit /\ [][Next]_vars

\* ------------------------------------------- the baseline without pruning
\* When find_best_plan is over, the device of every heuristic that draws no
\* random number is made and run once more from the loans of the file, with
\* bestDevice left at its default None: no such run can be pruned.

DeterministicHeuristics == SelectSeq(ALL_HEURISTICS, LAMBDA h : h # "random_heuristic")

RunsWithoutReference == SelectSeq(runLog, LAMBDA r : r.scenario = "unpruned")

\* PaymentDevice(dateOfBirth, loans, heuristic).pay_loans() for the next
\* heuristic.
StartUnpruned ==
    /\ pc = "exit"
    /\ parsed
    /\ Len(RunsWithoutReference) < Len(DeterministicHeuristics)
    /\ StartDevice("unpruned", cfgLoans,
                   DeterministicHeuristics[Len(RunsWithoutReference) + 1], None)
    /\ UNCHANGED << call, cfgVars, hIdx, changedTodo, initialPaymentDevices,
                    changedPaymentDevices, bestInitialPlan, bestChangedPlan, replay, raised >>

\* The run has returned: its result is logged.
EndUnpruned ==
    /\ pc = "returned"
    /\ scenario = "unpruned"
    /\ runLog' = Recorded
    /\ pc' = "exit"
    /\ UNCHANGED << call, cfgVars, scenario, hIdx, changedTodo, initialPaymentDevices,
                    changedPaymentDevices, bestInitialPlan, bestChangedPlan, replay,
                    handleVars, deviceVars, raised >>

UnprunedNext == Next \/ StartUnpruned \/ EndUnpruned

UnprunedInit == InitOf(ReplayInputs) /\ call = NoCall

UnprunedSpec == UnprunedInit /\ [][UnprunedNext]_vars

\* --------------------------------------------- each loan of a file alone
\* Before the baseline runs, a device is made and run for each loan of the file
\* by itself, from the same day and with no reference: a device with one loan
\* has no loan to hand a payment on to, so the months of these runs are the
\* months the loans take when no payment is ever reallocated.

EndToEndPortfolios == { << << 2000, 10, 100, 1 >>, << 4000, 10, 100, 15 >> >> }

EndToEndStartDate == Date(2024, 1, 1)

EndToEndInputs ==
    Inputs \cup { Input(ts, << 0, 0 >>, DefaultBirthDate, EndToEndStartDate) :
                     ts \in EndToEndPortfolios }

EndToEndInit == InitOf(EndToEndInputs) /\ call = NoCall

\* PaymentDevice(dateOfBirth, [loan], heuristic).pay_loans() for the next loan
\* of the file.
StartAlone ==
    /\ pc = "initial"
    /\ hIdx = 1
    /\ Len(call.returned) < Len(cfgLoans)
    /\ call' = [fn |-> "pay_loans", args |-> << Len(call.returned) + 1 >>,
                returned |-> call.returned]
    /\ StartDevice("alone", << cfgLoans[Len(call.returned) + 1] >>, ALL_HEURISTICS[1], None)
    /\ UNCHANGED << cfgVars, hIdx, changedTodo, initialPaymentDevices, changedPaymentDevices,
                    bestInitialPlan, bestChangedPlan, replay, raised >>

\* The run of the loan alone has returned: its months are kept (-1 for a run
\* that returned False).
EndAlone ==
    /\ pc = "returned"
    /\ scenario = "alone"
    /\ call' = [call EXCEPT !.returned =
                    Append(@, IF status THEN paymentStats.monthsPaid ELSE -1)]
    /\ runLog' = Recorded
    /\ pc' = "initial"
    /\ UNCHANGED << cfgVars, scenario, hIdx, changedTodo, initialPaymentDevices,
                    changedPaymentDevices, bestInitialPlan, bestChangedPlan, replay,
                    handleVars, deviceVars, raised >>

EndToEndNext == Next \/ StartAlone \/ EndAlone

EndToEndSpec == EndToEndInit /\ [][EndToEndNext]_vars

\* ------------------------------------------------- a heuristic on its own
\* heuristic(loans, LoanConfig.DAYS_PER_MONTH) for the lists of up to
\* MaxCandidates loans that owe something, at a rate >= 0 and with a payment > 0.

MaxCandidates == 3

CandidateShapes ==
    { << b, r, p >> : b \in {Scale, 2 * Scale}, r \in {0, 10}, p \in {Scale, 3 * Scale} }

CandidateLists ==
    UNION { { [i \in 1..n |-> Loan(i, f[i][1], f[i][2], f[i][3], 1)] :
                f \in [1..n -> CandidateShapes] } : n \in 1..MaxCandidates }

HeuristicInit ==
    /\ InitOf({ Input(<< >>, << 0, 0 >>, DefaultBirthDate, StartDate) })
    /\ \E ls \in CandidateLists : call = [fn |-> None, args |-> ls, returned |-> << >>]

\* The call returns: the position of the loan returned, and the list as the
\* call leaves it (a heuristic reads the fields of the loans and assigns none).
CallHeuristic ==
    /\ call.fn = None
    /\ \E heuristic \in Heuristics :
          /\ ~HeuristicRaises(heuristic, call.args)
          /\ \E k \in HeuristicChoice(heuristic, call.args) :
                call' = [fn |-> heuristic, args |-> call.args,
                         returned |-> [loan |-> k, loans |-> call.args]]
    /\ UNCHANGED << cfgVars, plannerVars, handleVars, deviceVars, pc, raised >>

HeuristicNext == CallHeuristic

HeuristicSpec == HeuristicInit /\ [][HeuristicNext]_vars

\* ------------------------------------------------ get_age_on_date on its own
\* get_age_on_date(dateOfBirth, date) for birth dates a file can give and later
\* dates around the birthdays, in leap years and common years.

BirthDates == { Date(2000, 3, 1), Date(2000, 2, 29), Date(2000, 2, 28), Date(1999, 12, 31) }

EvaluationDates ==
    { Date(y, m, d) : y \in 2023..2025, m \in {1, 2, 3, 12}, d \in {1, 2, 28, 29, 31} }

AgeInit ==
    /\ InitOf({ Input(<< >>, << 0, 0 >>, DefaultBirthDate, StartDate) })
    /\ \E b \in BirthDates : \E d \in EvaluationDates :
          /\ d.day <= DaysInMonth(d.year, d.month)
          /\ call = [fn |-> None, args |-> << b, d >>, returned |-> << >>]

\* The call returns an age, or raises ValueError from dateOfBirth.replace.
CallGetAgeOnDate ==
    /\ call.fn = None
    /\ call' = [fn |-> "get_age_on_date", args |-> call.args,
                returned |-> IF ReplaceYearRaises(call.args[1], call.args[2].year)
                             THEN [raised |-> "ValueError", value |-> << >>]
                             ELSE [raised |-> None,
                                   value |-> << get_age_on_date(call.args[1], call.args[2]) >>]]
    /\ UNCHANGED << cfgVars, plannerVars, handleVars, deviceVars, pc, raised >>

AgeNext == CallGetAgeOnDate

AgeSpec == AgeInit /\ [][AgeNext]_vars

\* ----------------------------------------------------------------- claims

\* Where the program is while pay_loans is running.
InPayLoans == pc \in {"pay_loans", "day_loop", "handle_paid_loans", "handle_paid_loan"}

\* The loans pay_loans copied into the working set.
CopiedLoans == SelectSeq(originalLoans, LAMBDA x : x.balance > 0)

ReferenceAmountPaid == Devices(scenario)[bestDevice].paymentStats.amountPaid

Paid == status /\ loans = << >>

TimedOut == ~status /\ ~Pruned /\ loans # << >> /\ currentDate.year >= MAX_YEAR

PrunedRun == ~status /\ Pruned /\ loans # << >>

\* The bound of the day loop and the value returned at the bound: the part of
\* C1 that is about the runs that return.
YearBound ==
    /\ \A i \in 1..Len(lastSimulated) : lastSimulated[i].year < MAX_YEAR
    /\ (pc = "returned" /\ loans # << >> /\ currentDate.year >= MAX_YEAR) => ~status
    /\ (pc = "returned" /\ CopiedLoans # << >>) =>
           /\ Paid \/ TimedOut \/ PrunedRun
           /\ ~(Paid /\ TimedOut) /\ ~(Paid /\ PrunedRun) /\ ~(TimedOut /\ PrunedRun)

\* C1 -- pay_loans ends in exactly one of the states Paid, Timed-out and Pruned:
\* the day loop simulates no day of a year >= MAX_YEAR, a run with loans left
\* when the date reaches MAX_YEAR returns False, a run that had loans to pay
\* returns in exactly one of the three states, and no run ends by raising.
C1_EndsInOneTerminalState ==
    /\ YearBound
    /\ raised \notin {"ZeroDivisionError", "ValueError"}

RemovedTimes(name) == Cardinality({i \in 1..Len(removedLog) : removedLog[i].name = name})

\* C2 -- pay_loans returns True exactly when it copied at least one loan and
\* the working set has become empty; when it returns True every copied loan was
\* removed exactly once, with a balance <= 0; when it returns False a loan is
\* left in the working set or nothing was copied.
C2_ReturnValue ==
    (pc = "returned" \/ (pc = "pay_loans" /\ ~(loans # << >> /\ status))) =>
        /\ status = (CopiedLoans # << >> /\ loans = << >>)
        /\ status =>
              /\ \A i \in 1..Len(CopiedLoans) : RemovedTimes(CopiedLoans[i].name) = 1
              /\ Len(removedLog) = Len(CopiedLoans)
              /\ \A j \in 1..Len(removedLog) : removedLog[j].balance <= 0
        /\ ~status => (loans # << >> \/ CopiedLoans = << >>)

\* A run of three loans has returned True.
C2_Witness == pc = "returned" /\ status /\ Len(CopiedLoans) = 3 /\ Len(removedLog) = 3

ExceedsReference == bestDevice # None /\ paymentStats.amountPaid > ReferenceAmountPaid

\* C3 -- at the start of a day of the day loop the run is pruned (no payment is
\* made, the loop is left, pay_loans returns False) exactly when it has a
\* reference and its amountPaid is greater than the reference's; otherwise, a
\* tie included, the day is simulated.
C3_PrunedExactlyWhenDearer ==
    /\ [](pc = "returned" /\ Pruned => ~status)
    /\ [][Pruned /\ Pruned' => paymentLog' = paymentLog /\ lastSimulated' = lastSimulated]_vars
    /\ [][(pc = "day_loop" /\ DayLoopRuns) =>
            IF ExceedsReference
            THEN /\ Pruned' /\ pc' = "handle_paid_loans"
                 /\ paymentLog' = paymentLog /\ paymentStats' = paymentStats
                 /\ loans' = loans /\ currentDate' = currentDate
            ELSE /\ ~Pruned' /\ lastSimulated' = << currentDate >>
                 /\ currentDate' = ONE_DAY_DELTA(currentDate)]_vars

\* A day starts with the run having paid exactly what the reference paid.
C3_Witness ==
    /\ pc = "day_loop" /\ DayLoopRuns
    /\ bestDevice # None /\ paymentStats.amountPaid = ReferenceAmountPaid
    /\ paymentLog # << >> /\ loans # << >>

\* C4 -- a run with a deterministic heuristic that was pruned against a
\* reference, run again with no reference, times out or ends having paid at
\* least what the reference paid.
C4_PruningIsSound ==
    (pc = "returned" /\ scenario = "replay") =>
        IF status THEN /\ paymentStats.amountPaid >= replay[1].reference
                       /\ paymentStats.amountPaid >= replay[1].prunedAt
        ELSE TimedOut

\* A pruned run, run again, has paid all its loans.
C4_Witness ==
    /\ pc = "returned" /\ scenario = "replay" /\ status
    /\ replay[1].prunedAt > replay[1].reference
    /\ paymentStats.amountPaid >= replay[1].reference

Successes(sc) ==
    {i \in 1..Len(runLog) : runLog[i].scenario = sc /\ runLog[i].returned /\ runLog[i].status}

CheapestOfSuccesses(sc, best, plans) ==
    /\ (best = None) <=> (Successes(sc) = {})
    /\ best # None =>
          /\ best \in DOMAIN plans
          /\ \E i \in Successes(sc) :
                /\ runLog[i].heuristic = best
                /\ runLog[i].amountPaid = plans[best].paymentStats.amountPaid
          /\ \A i \in Successes(sc) : plans[best].paymentStats.amountPaid <= runLog[i].amountPaid

\* C5 -- once a run has been recorded, the best plan of its scenario is a run
\* that paid the least of the runs of the scenario that returned True so far,
\* and it is None exactly when none has.
C5_BestIsCheapest ==
    /\ CheapestOfSuccesses("initial", bestInitialPlan, initialPaymentDevices)
    /\ CheapestOfSuccesses("changed", bestChangedPlan, changedPaymentDevices)

\* The best plan is cheaper than another run that returned True.
C5_Witness ==
    /\ bestInitialPlan # None
    /\ \E i \in Successes("initial") :
          initialPaymentDevices[bestInitialPlan].paymentStats.amountPaid < runLog[i].amountPaid

\* C6 -- the best plan of a scenario changes only to a run that paid less:
\* a run that ties the incumbent leaves the incumbent the best plan.
C6_TieKeepsIncumbent ==
    /\ [][(bestInitialPlan # None /\ bestInitialPlan' # bestInitialPlan) =>
            initialPaymentDevices'[bestInitialPlan'].paymentStats.amountPaid
              < initialPaymentDevices[bestInitialPlan].paymentStats.amountPaid]_vars
    /\ [][(bestChangedPlan # None /\ bestChangedPlan' # bestChangedPlan) =>
            changedPaymentDevices'[bestChangedPlan'].paymentStats.amountPaid
              < changedPaymentDevices[bestChangedPlan].paymentStats.amountPaid]_vars

RunsOf(sc) == {runLog[i].heuristic : i \in {j \in 1..Len(runLog) : runLog[j].scenario = sc}}

\* The runs of the baseline, and the reference of every run: the part of C7
\* that is about the configuration as it was read.
BaselineRuns ==
    /\ (InPayLoans /\ scenario = "initial") => bestDevice = bestInitialPlan
    /\ (InPayLoans /\ scenario = "changed") => bestDevice = bestChangedPlan
    /\ (pc = "exit" /\ parsed) => RunsOf("initial") = Heuristics

\* C7 -- every scenario that is run makes and runs a device for every
\* heuristic of ALL_HEURISTICS, each with the best plan of the scenario as it
\* then is for its reference.
C7_EveryHeuristicRuns ==
    /\ BaselineRuns
    /\ (pc = "exit" /\ RunsOf("changed") # {}) => RunsOf("changed") = Heuristics

\* C8 -- get_payment_amount is the lesser of monthlyPayment and balance: the
\* balance when balance <= monthlyPayment and the monthlyPayment otherwise, so
\* that no payment leaves a balance below 0.
C8_PaymentIsTheLesser ==
    /\ \A i \in 1..Len(paymentLog) :
          LET loan == paymentLog[i].loan
          IN  /\ paymentLog[i].payment = get_payment_amount(loan)
              /\ paymentLog[i].payment =
                     (IF loan.balance <= loan.monthlyPayment THEN loan.balance
                      ELSE loan.monthlyPayment)
              /\ paymentLog[i].payment <= loan.balance
              /\ paymentLog[i].payment <= loan.monthlyPayment
              /\ paymentLog[i].after = loan.balance - paymentLog[i].payment
              /\ paymentLog[i].after >= 0
    /\ (InPayLoans \/ pc = "returned") =>
          \A i \in 1..Len(loans) :
             /\ loans[i].balance >= 0
             /\ get_payment_amount(loans[i]) <= loans[i].balance
             /\ get_payment_amount(loans[i]) <= loans[i].monthlyPayment

\* Payments were made of a balance above, equal to and, with interest added,
\* below the monthly payment.
C8_Witness ==
    /\ \E i \in 1..Len(paymentLog) :
          paymentLog[i].loan.balance > paymentLog[i].loan.monthlyPayment
    /\ \E i \in 1..Len(paymentLog) :
          paymentLog[i].loan.balance = paymentLog[i].loan.monthlyPayment
    /\ \E i \in 1..Len(paymentLog) :
          /\ paymentLog[i].loan.balance < paymentLog[i].loan.monthlyPayment
          /\ paymentLog[i].loan.interestRate > 0
          /\ paymentLog[i].after = 0

RECURSIVE SumOfPaymentAmounts(_)
SumOfPaymentAmounts(log) ==
    IF log = << >> THEN 0
    ELSE get_payment_amount(Head(log).loan) + SumOfPaymentAmounts(Tail(log))

\* C9 -- amountPaid is the sum of get_payment_amount() of the payments made so
\* far, each taken on the balance with the period's interest added, and it
\* never decreases while a run goes on.
C9_AmountPaidIsTheSum ==
    /\ [](paymentStats.amountPaid = SumOfPaymentAmounts(paymentLog))
    /\ [][InPayLoans => paymentStats'.amountPaid >= paymentStats.amountPaid]_vars

\* Several payments were made, one of them of a balance that interest had
\* brought to less than the monthly payment.
C9_Witness ==
    /\ Len(paymentLog) >= 4
    /\ paymentStats.amountPaid > 0
    /\ \E i \in 1..Len(paymentLog) :
          /\ paymentLog[i].loan.interestRate > 0
          /\ paymentLog[i].payment = paymentLog[i].loan.balance
          /\ paymentLog[i].payment < paymentLog[i].loan.monthlyPayment

Eligible(working) == SelectSeq(working, LAMBDA x : x.balance > x.monthlyPayment)

\* C10 -- every unit of a paid loan's payment goes to a loan of the working
\* set whose balance is greater than its monthlyPayment when the unit is handed
\* out, the loan the heuristic returns for the list of those loans as it then
\* is, and raises that loan's monthlyPayment alone by one unit; with no such
\* loan the unit goes to no loan.
C10_UnitGoesToEligibleChoice ==
    \A i \in 1..Len(unitLog) :
        LET e == unitLog[i]
            eligible == Eligible(e.working)
        IN  IF eligible = << >>
            THEN e.loan = None /\ e.after = e.working
            ELSE /\ e.eligible = eligible
                 /\ \E k \in HeuristicChoice(allocationDecider, eligible) :
                       eligible[k].name = e.loan
                 /\ \E at \in 1..Len(e.working) :
                       /\ e.working[at].name = e.loan
                       /\ e.working[at].balance > e.working[at].monthlyPayment
                       /\ e.after = [e.working EXCEPT ![at].monthlyPayment = @ + Scale]

\* A unit was handed out with two loans to choose from, and it went to the
\* second of them.
C10_Witness ==
    \E i \in 1..Len(unitLog) :
        /\ Len(Eligible(unitLog[i].working)) >= 2
        /\ unitLog[i].loan = Eligible(unitLog[i].working)[2].name

\* C11 -- every list handed to a heuristic holds only loans with a
\* monthlyPayment > 0, and no run ends with a ratio heuristic dividing by a
\* monthlyPayment of zero.
C11_NoZeroPaymentCandidate ==
    /\ \A i \in 1..Len(unitLog) :
          \A k \in 1..Len(unitLog[i].eligible) : unitLog[i].eligible[k].monthlyPayment > 0
    /\ (pc = "handle_paid_loan" /\ dollar < UnitsOfPaidLoan) =>
          \A k \in 1..Len(getEligibleLoans) : getEligibleLoans[k].monthlyPayment > 0
    /\ raised # "ZeroDivisionError"

\* C12 -- a step of a running pay_loans changes no loan of the device's
\* originalLoans, none of the configuration's list and no field of a device
\* that has run (the reference among them): the loans it writes to are objects
\* of its own copy, which none of these lists holds.
C12_RunsShareNoLoans ==
    [][InPayLoans =>
          /\ cfgLoans' = cfgLoans
          /\ originalLoans' = originalLoans
          /\ initialPaymentDevices' = initialPaymentDevices
          /\ changedPaymentDevices' = changedPaymentDevices
          /\ \A i \in 1..Len(loans) :
                /\ \A j \in 1..Len(originalLoans) : ~SameObject(loans[i], originalLoans[j])
                /\ \A j \in 1..Len(cfgLoans) : ~SameObject(loans[i], cfgLoans[j])]_vars

\* A run with a reference has made payments and handed out a unit, and its
\* originalLoans still owe what the file says.
C12_Witness ==
    /\ pc = "returned" /\ status /\ bestDevice # None
    /\ scenario = "initial" /\ originalLoans = cfgLoans
    /\ paymentLog # << >>
    /\ \E i \in 1..Len(removedLog) :
          /\ removedLog[i].monthlyPayment >
                originalLoans[IndexOf(originalLoans, removedLog[i].name)].monthlyPayment
          /\ originalLoans[IndexOf(originalLoans, removedLog[i].name)].balance > 0

\* The run of heuristic h in scenario sc returned True having paid `amount`.
ReturnedTrue(sc, h, amount) ==
    \E i \in 1..Len(runLog) :
        /\ runLog[i].scenario = sc /\ runLog[i].heuristic = h
        /\ runLog[i].returned /\ runLog[i].status
        /\ runLog[i].amountPaid = amount

\* C13 -- every device kept in a scenario's dict, every reference of a run and
\* every best plan is a device whose pay_loans returned True, and a run that
\* returns False leaves finishDate, monthsPaid, yearsPaid and finishAge as
\* PaymentStats.__init__ set them.
C13_FailedRunsAreNotRead ==
    /\ \A sc \in {"initial", "changed"} : \A h \in DOMAIN Devices(sc) :
          /\ ReturnedTrue(sc, h, Devices(sc)[h].paymentStats.amountPaid)
          /\ Devices(sc)[h].loans = << >>
    /\ bestInitialPlan \in DOMAIN initialPaymentDevices \cup {None}
    /\ bestChangedPlan \in DOMAIN changedPaymentDevices \cup {None}
    /\ (InPayLoans \/ pc = "returned") => bestDevice \in DOMAIN Devices(scenario) \cup {None}
    /\ (pc = "returned" /\ ~status) =>
          /\ paymentStats.finishDate = None
          /\ paymentStats.monthsPaid = 0
          /\ paymentStats.yearsPaid = 0
          /\ paymentStats.finishAge = 0

\* A run that made payments against a reference has returned False.
C13_Witness ==
    /\ pc = "returned" /\ ~status
    /\ bestDevice # None /\ paymentLog # << >>
    /\ bestInitialPlan # None

RECURSIVE SumOfField(_, _)
SumOfField(ls, field) ==
    IF ls = << >> THEN 0 ELSE Head(ls)[field] + SumOfField(Tail(ls), field)

\* C14 -- with U whole units of upfront payment and M of monthly increase the
\* allocation of every heuristic ends without an error, and the loans the
\* device is made from carry U in all as upfrontPayment and at least M in all
\* as monthlyIncrease.
C14_AllocationCompletes ==
    /\ raised # "AttributeError"
    /\ (scenario = "changed" /\ (InPayLoans \/ pc = "returned")) =>
          /\ SumOfField(originalLoans, "upfrontPayment") = WholeUnits(upfrontPayment) * Scale
          /\ SumOfField(originalLoans, "monthlyIncrease") >= WholeUnits(monthlyIncrease) * Scale

\* C15 -- a heuristic given a non-empty list of loans with balance > 0, a rate
\* >= 0 and monthlyPayment > 0 returns one loan of the list (never None) and
\* leaves the list as it was.
C15_HeuristicReturnsOneOfTheList ==
    call.fn \in Heuristics =>
        /\ call.returned.loan \in 1..Len(call.args)
        /\ call.returned.loans = call.args

\* The accrual heuristic has returned a loan of a list of three loans none of
\* which accrues interest.
C15_Witness ==
    /\ call.fn = "max_interest_accrual_heuristic"
    /\ Len(call.args) = MaxCandidates
    /\ \A i \in 1..Len(call.args) : call.args[i].interestRate = 0
    /\ call.returned.loan = 1

\* The monthlyPayment the loan `name` of the working set `working` has.
PaymentOf(working, name) == working[IndexOf(working, name)].monthlyPayment

StaysIn(working, name) == \E i \in 1..Len(working) : working[i].name = name

\* C16 -- no step of a run lowers the monthlyPayment of a loan of the working
\* set; a step that changes one is a turn of the reallocation loop, and raises
\* the monthlyPayment of one loan by one unit.
C16_PaymentNeverDecreases ==
    [][InPayLoans =>
          LET changed == { i \in 1..Len(loans) :
                              /\ StaysIn(loans', loans[i].name)
                              /\ PaymentOf(loans', loans[i].name) # loans[i].monthlyPayment }
          IN  /\ \A i \in 1..Len(loans) :
                    StaysIn(loans', loans[i].name) =>
                        PaymentOf(loans', loans[i].name) >= loans[i].monthlyPayment
              /\ \A i \in 1..Len(loans') : StaysIn(loans, loans'[i].name)
              /\ changed # {} =>
                    /\ pc = "handle_paid_loan" /\ dollar' = dollar + 1
                    /\ Cardinality(changed) = 1
                    /\ \A i \in changed :
                          PaymentOf(loans', loans[i].name) = loans[i].monthlyPayment + Scale]_vars

\* The two units of a paid loan have gone to one loan of the working set, which
\* now pays two units more than the file says.
C16_Witness ==
    /\ pc = "handle_paid_loan" /\ dollar = 2
    /\ \E i \in 1..Len(loans) :
          loans[i].monthlyPayment = PaymentOf(originalLoans, loans[i].name) + (2 * Scale)

\* The places of the trace that say the loan `name` has finished.
FinishedEntries(name) ==
    { j \in 1..Len(paymentPlan) :
          /\ paymentPlan[j].kind \in {"finished_at_start", "finished"}
          /\ paymentPlan[j].name = name }

NothingOwedLoans == SelectSeq(originalLoans, LAMBDA x : x.balance <= 0)

\* C17 -- the trace of a device has one entry, made by the constructor, for
\* each of its loans with balance <= 0; and when none of its loans has a
\* balance > 0, pay_loans goes straight to its return of False: no day is
\* simulated, no payment is made, amountPaid is 0 and the trace holds nothing
\* but those entries.
C17_NothingOwedFailsAtOnce ==
    (InPayLoans \/ pc = "returned") =>
        /\ \A i \in 1..Len(NothingOwedLoans) :
              /\ Cardinality(FinishedEntries(NothingOwedLoans[i].name)) = 1
              /\ paymentPlan[i] = Entry("finished_at_start", NothingOwedLoans[i].name, 0, 0)
        /\ CopiedLoans = << >> =>
              /\ pc \in {"pay_loans", "returned"}
              /\ ~status
              /\ lastSimulated = << >>
              /\ paymentLog = << >>
              /\ paymentStats.amountPaid = 0
              /\ Len(paymentPlan) = Len(originalLoans)

\* pay_loans has returned for a file whose only loan has nothing owed.
C17_Witness ==
    /\ pc = "returned"
    /\ originalLoans # << >> /\ CopiedLoans = << >>
    /\ Len(paymentPlan) = 1

\* The file of two loans: 1000 and 2000, both at 10 % and 100 a month.
EndToEndFile == cfgLoans \in { Portfolio(ts) : ts \in EndToEndPortfolios }

BaselineRun == scenario = "initial" /\ (InPayLoans \/ pc = "returned")

RECURSIVE MaxOf(_)
MaxOf(q) ==
    IF Len(q) = 1 THEN q[1]
    ELSE IF q[1] > MaxOf(Tail(q)) THEN q[1] ELSE MaxOf(Tail(q))

\* C18 -- for the file of the two loans every baseline run returns True; the
\* 1000 loan is the first to leave the working set; while its payment is
\* handed out the 2000 loan's monthlyPayment goes from 100 to 200, unit by
\* unit, and stays 200; and the run takes fewer months than the longer of the
\* two loans run alone, where nothing is reallocated.
C18_EndToEnd ==
    (EndToEndFile /\ BaselineRun) =>
        /\ pc = "returned" => status /\ loans = << >> /\ Len(removedLog) = 2
        /\ removedLog # << >> => removedLog[1].name = 1
        /\ removedLog = << >> =>
              \A i \in 1..Len(loans) : loans[i].monthlyPayment = 100 * Scale
        /\ (Len(removedLog) = 1 /\ pc = "handle_paid_loan") =>
              /\ UnitsOfPaidLoan = 100
              /\ Len(loans) = 1 /\ loans[1].name = 2
              /\ loans[1].monthlyPayment = (100 + dollar) * Scale
        /\ (Len(removedLog) = 1 /\ (pc = "pay_loans" \/ (pc = "day_loop" /\ paidLoans = << >>))) =>
              Len(loans) = 1 /\ loans[1].monthlyPayment = 200 * Scale
        /\ Len(removedLog) = 2 => removedLog[2].monthlyPayment = 200 * Scale
        /\ (pc = "returned" /\ Len(call.returned) = Len(cfgLoans)) =>
              /\ \A i \in 1..Len(call.returned) : call.returned[i] >= 0
              /\ paymentStats.monthsPaid < MaxOf(call.returned)

\* A baseline run of the file, made after both loans were run alone, has
\* returned True.
C18_Witness ==
    /\ EndToEndFile /\ scenario = "initial" /\ pc = "returned" /\ status
    /\ allocationDecider = "min_percent_payment_applied_heuristic"
    /\ Len(call.returned) = 2
    /\ paymentStats.monthsPaid > 0

\* (month, day) of a comes before (month, day) of b.
PrecedesInYear(a, b) == a.month < b.month \/ (a.month = b.month /\ a.day < b.day)

\* C19 -- get_age_on_date returns, for every birth date and later date, the
\* difference of the years less 1 exactly when the date's (month, day) comes
\* before the birth date's; it raises nothing, a birth date of February 29
\* included.
C19_AgeIsExact ==
    call.fn = "get_age_on_date" =>
        /\ call.returned.raised = None
        /\ call.returned.value =
              << (call.args[2].year - call.args[1].year)
                    - (IF PrecedesInYear(call.args[2], call.args[1]) THEN 1 ELSE 0) >>

\* The amounts paid by the runs of scenario sc that returned True, those of
\* the random heuristic left out.
AmountsOfSuccesses(sc) ==
    { runLog[i].amountPaid : i \in { j \in 1..Len(runLog) :
          /\ runLog[j].scenario = sc /\ runLog[j].heuristic # "random_heuristic"
          /\ runLog[j].returned /\ runLog[j].status } }

Least(S) == CHOOSE x \in S : \A y \in S : x <= y

AllRunWithoutReference ==
    pc = "exit" /\ Len(RunsWithoutReference) = Len(DeterministicHeuristics)

\* C20 -- once every deterministic heuristic has also been run with no
\* reference: the least amountPaid of the baseline's successful runs is the
\* least amountPaid of the successful runs without reference; the baseline has
\* no successful run only if none of those runs succeeds; and the best plan of
\* the baseline, unless it is the random heuristic's, pays that least amount.
C20_PruningKeepsTheAnswer ==
    AllRunWithoutReference =>
        /\ (AmountsOfSuccesses("initial") = {}) = (AmountsOfSuccesses("unpruned") = {})
        /\ AmountsOfSuccesses("unpruned") # {} =>
              /\ Least(AmountsOfSuccesses("initial")) = Least(AmountsOfSuccesses("unpruned"))
              /\ bestInitialPlan # None
              /\ initialPaymentDevices[bestInitialPlan].paymentStats.amountPaid
                    <= Least(AmountsOfSuccesses("unpruned"))
              /\ bestInitialPlan # "random_heuristic" =>
                    initialPaymentDevices[bestInitialPlan].paymentStats.amountPaid
                        = Least(AmountsOfSuccesses("unpruned"))
        /\ bestInitialPlan = None => AmountsOfSuccesses("unpruned") = {}

\* Every heuristic has been run without reference, and one of them whose
\* baseline run was cut short pays all its loans when it is not pruned.
C20_Witness ==
    /\ AllRunWithoutReference
    /\ \E i, j \in 1..Len(runLog) :
          /\ runLog[i].scenario = "initial" /\ runLog[j].scenario = "unpruned"
          /\ runLog[i].heuristic = runLog[j].heuristic
          /\ ~runLog[i].status /\ runLog[j].status
          /\ runLog[j].amountPaid > Least(AmountsOfSuccesses("unpruned"))

\* The payment before the i-th of the log that was made to the same loan, if
\* there is one.
PreviousPayment(i) ==
    { j \in 1..(i - 1) :
          /\ paymentLog[j].loan.name = paymentLog[i].loan.name
          /\ \A k \in (j + 1)..(i - 1) : paymentLog[k].loan.name # paymentLog[i].loan.name }

\* C21 -- every payment of a loan after its first accrues interest over the
\* days that have gone by since the loan's payment before it.
C21_InterestOverElapsedDays ==
    \A i \in 1..Len(paymentLog) : \A j \in PreviousPayment(i) :
        paymentLog[i].days = DaysBetween(paymentLog[i].date, paymentLog[j].date)

\* C22 -- the loan max_interest_rate_heuristic returns has the highest rate of
\* the list and the highest balance of the loans with that rate, and is the
\* first of the list among the loans that tie with it on both.
C22_HighestRateThenBalance ==
    call.fn = "max_interest_rate_heuristic" =>
        LET ls == call.args
            k == call.returned.loan
        IN  /\ k \in 1..Len(ls)
            /\ \A i \in 1..Len(ls) :
                  /\ ls[i].interestRate <= ls[k].interestRate
                  /\ ls[i].interestRate = ls[k].interestRate =>
                        /\ ls[i].balance <= ls[k].balance
                        /\ ls[i].balance = ls[k].balance => k <= i

\* The second of three loans is returned: the first has its rate and a smaller
\* balance, the third ties with it on both.
C22_Witness ==
    /\ call.fn = "max_interest_rate_heuristic"
    /\ Len(call.args) = 3
    /\ call.returned.loan = 2
    /\ call.args[1].interestRate = call.args[2].interestRate
    /\ call.args[1].balance < call.args[2].balance
    /\ call.args[3].interestRate = call.args[2].interestRate
    /\ call.args[3].balance = call.args[2].balance

\* The units of the paid loan being handled that went to a loan.
UnitsHandedOut == Cardinality({ i \in 1..Len(unitLog) : unitLog[i].eligible # << >> })

\* C23 -- the working set never pays more a month than the run's first working
\* set did; and while a paid loan is handled, the working set's monthly total
\* is above what it was when the handling began by one unit for each turn of
\* the loop that found an eligible loan: at most the whole units of the paid
\* loan's monthlyPayment, and all of them exactly when every turn found one.
C23_NoPaymentCapacityCreated ==
    (InPayLoans \/ pc = "returned") =>
        /\ SumOfField(loans, "monthlyPayment") <= SumOfField(CopiedLoans, "monthlyPayment")
        /\ (pc = "handle_paid_loan" /\ unitLog # << >>) =>
              LET gained == SumOfField(loans, "monthlyPayment")
                               - SumOfField(unitLog[1].working, "monthlyPayment")
              IN  /\ Len(unitLog) = dollar
                  /\ gained = UnitsHandedOut * Scale
                  /\ gained <= UnitsOfPaidLoan * Scale
                  /\ dollar = UnitsOfPaidLoan =>
                        ((gained = UnitsOfPaidLoan * Scale)
                            = (\A i \in 1..Len(unitLog) : unitLog[i].eligible # << >>))

\* The two units of a paid loan have been dealt with: one went to a loan, the
\* other found no eligible loan.
C23_Witness ==
    /\ pc = "handle_paid_loan" /\ UnitsOfPaidLoan = 2 /\ dollar = 2
    /\ UnitsHandedOut = 1

====
